---- MODULE Spec2Model ----
(***************************************************************************)
(* Model of notebooks/prepares.py (class Preparedata) and of the run()     *)
(* of notebooks/solution2_sho.py.                                          *)
(*                                                                         *)
(* A DataFrame is a record                                                 *)
(*   [index, columns, dtypes, data]                                        *)
(* held column-major as pandas holds it: data[c][r] is the cell of column  *)
(* c in row r, columns[c] the header of column c, index[r] the label of    *)
(* row r, dtypes[c] the dtype of column c ("object" for text, "float64"    *)
(* for numbers, "int64" after astype).                                     *)
(*                                                                         *)
(* A header is the sequence of its characters, so that counting "/" and    *)
(* parsing a date are computed and not assumed.  A float64 cell is NaN or  *)
(* the exact fraction <<num, den>>, an int64 cell the fraction <<n, 1>>,   *)
(* an object cell the one-tuple of its string.                             *)
(***************************************************************************)
EXTENDS Integers, Sequences, FiniteSets, TLC

VARIABLES
    arg,           \* the DataFrame passed to the function under study
    res,           \* the results of its successive applications
    download_new,  \* Preparedata.download_new
    notebook,      \* TRUE when the run() under way is the notebook's
    source,        \* what each (group, kind) source delivers
    pos,           \* position of run()'s two nested loops, 1..4, 5 when over
    pc,            \* the statement run() is about to execute
    df,            \* run()'s local df
    data,          \* run()'s local data
    returned,      \* what the caller of run() received
    trace          \* the calls run() has made, in order

vars == <<arg, res, download_new, notebook, source, pos, pc, df, data, returned, trace>>

(***************************************************************************)
(* Bounds of the enumerated inputs.                                        *)
(***************************************************************************)
MaxLen == 4        \* rows of a time series
MaxVal == 2        \* largest count in an enumerated cell
MaxRows == 2       \* rows of an enumerated wide table
MaxApply == 2      \* successive applications of fix_bad_data
MaxCols == 3       \* columns of an enumerated raw table

(***************************************************************************)
(* float64 cells.                                                          *)
(***************************************************************************)
NaN == <<>>
Num(n) == <<n, 1>>
Str(s) == <<s>>
isna(x) == x = NaN

\* a < b on two fractions with positive denominators; False when either is NaN
lt(a, b) == ~isna(a) /\ ~isna(b) /\ a[1] * b[2] < b[1] * a[2]

Range(s) == {s[i] : i \in 1..Len(s)}

\* the positions of a Boolean filter that hold True, ascending, among 1..n
RECURSIVE WhereUpTo(_, _)
WhereUpTo(filt, n) ==
    IF n = 0 THEN <<>>
    ELSE IF filt[n] THEN Append(WhereUpTo(filt, n - 1), n) ELSE WhereUpTo(filt, n - 1)

Where(filt) == WhereUpTo(filt, Len(filt))

NoException == "none"
Returns(v) == [exc |-> NoException, value |-> v]
Raises(e) == [exc |-> e, value |-> <<>>]

(***************************************************************************)
(* fix_bad_data: df.mask(df < df.cummax()).interpolate().round(0)          *)
(*                 .astype('int64')                                        *)
(***************************************************************************)

\* a faulty running maximum, which looks one row back only
PrevMaxAt(col, i) ==
    IF isna(col[i]) THEN NaN
    ELSE IF i > 1 /\ lt(col[i], col[i - 1]) THEN col[i - 1] ELSE col[i]

\* Series.cummax at row i (skipna=True): the maximum of the valid cells of
\* rows 1..i, and NaN where the cell itself is NaN
RECURSIVE CummaxAt(_, _)
CummaxAt(col, i) ==
    IF isna(col[i]) THEN NaN
    ELSE LET before == {j \in 1..(i - 1) : ~isna(col[j])}
         IN  IF before = {} THEN col[i]
             ELSE LET j == CHOOSE m \in before : \A o \in before : o <= m
                      top == CummaxAt(col, j)
                  IN  IF lt(top, col[i]) THEN col[i] ELSE top

cummax(col) == [i \in 1..Len(col) |-> CummaxAt(col, i)]

\* df < df.cummax(), one column
regressed(col) == LET top == cummax(col) IN [i \in 1..Len(col) |-> lt(col[i], top[i])]

\* Series.mask(cond): NaN where cond holds
mask(col, cond) == [i \in 1..Len(col) |-> IF cond[i] THEN NaN ELSE col[i]]

\* a + (b - a) * k / n on fractions
Lerp(a, b, k, n) ==
    <<a[1] * b[2] * n + (b[1] * a[2] - a[1] * b[2]) * k, a[2] * b[2] * n>>

\* a faulty interpolation, which repeats the last valid cell in every NaN
padAt(col, i) ==
    IF ~isna(col[i]) THEN col[i]
    ELSE LET before == {j \in 1..(i - 1) : ~isna(col[j])}
         IN  IF before = {} THEN NaN
             ELSE col[CHOOSE m \in before : \A o \in before : o <= m]

\* Series.interpolate(): method='linear' on row positions, limit_direction
\* 'forward': a NaN run between two valid cells lies on the line between
\* them, a trailing run repeats the last valid cell, a leading run stays NaN
interpolateAt(col, i) ==
    IF ~isna(col[i]) THEN col[i]
    ELSE LET before == {j \in 1..(i - 1) : ~isna(col[j])}
             after == {j \in (i + 1)..Len(col) : ~isna(col[j])}
         IN  IF before = {} THEN NaN
             ELSE LET p == CHOOSE m \in before : \A o \in before : o <= m
                  IN  IF after = {} THEN col[p]
                      ELSE LET q == CHOOSE m \in after : \A o \in after : m <= o
                           IN  Lerp(col[p], col[q], i - p, q - p)

interpolate(col) == [i \in 1..Len(col) |-> interpolateAt(col, i)]

\* numpy round(0) of one cell: to the nearest integer, a half to the even one
round0(x) ==
    IF isna(x) THEN NaN
    ELSE LET q == x[1] \div x[2]
             r == x[1] % x[2]
         IN  IF 2 * r < x[2] THEN Num(q)
             ELSE IF 2 * r > x[2] THEN Num(q + 1)
             ELSE IF q % 2 = 0 THEN Num(q) ELSE Num(q + 1)

round(col) == [i \in 1..Len(col) |-> round0(col[i])]

\* DataFrame.astype('int64'): raises when a cell is NaN; the cells are whole
\* numbers already, round(0) having run
astype_int64(d) ==
    IF \E c \in 1..Len(d.data) : \E r \in 1..Len(d.data[c]) : isna(d.data[c][r])
    THEN Raises("ValueError")
    ELSE Returns([d EXCEPT !.dtypes = [c \in 1..Len(d.data) |-> "int64"]])

fix_bad_data(d) ==
    astype_int64([d EXCEPT !.data = [c \in 1..Len(d.data) |->
        round(interpolate(mask(d.data[c], regressed(d.data[c]))))]])

(***************************************************************************)
(* Column headers, character by character.                                 *)
(***************************************************************************)
hProvinceState == <<"P", "r", "o", "v", "i", "n", "c", "e", "/", "S", "t", "a", "t", "e">>
hCountryRegion == <<"C", "o", "u", "n", "t", "r", "y", "/", "R", "e", "g", "i", "o", "n">>
hProvince_State == <<"P", "r", "o", "v", "i", "n", "c", "e", "_", "S", "t", "a", "t", "e">>
hCountry_Region == <<"C", "o", "u", "n", "t", "r", "y", "_", "R", "e", "g", "i", "o", "n">>
hLat == <<"L", "a", "t">>
hLong == <<"L", "o", "n", "g">>
hJan22 == <<"1", "/", "2", "2", "/", "2", "0">>
hJan23 == <<"1", "/", "2", "3", "/", "2", "0">>
hJan24 == <<"1", "/", "2", "4", "/", "2", "0">>
hFourParts == <<"1", "/", "2", "/", "2", "/", "0">>

(***************************************************************************)
(* select_columns                                                          *)
(***************************************************************************)
labels == {hCountryRegion, hProvince_State}

\* str.count(ch): the occurrences of the character ch in the header
RECURSIVE count(_, _)
count(header, ch) ==
    IF header = <<>> THEN 0
    ELSE (IF Head(header) = ch THEN 1 ELSE 0) + count(Tail(header), ch)

\* cols.isin(labels)
filt1(cols) == [c \in 1..Len(cols) |-> cols[c] \in labels]

\* a faulty date filter, which asks for three separators instead of three
\* parts
filt2ThreeSlashes(cols) == [c \in 1..Len(cols) |-> count(cols[c], "/") = 3]

\* cols.str.count('/') == 2
filt2(cols) == [c \in 1..Len(cols) |-> count(cols[c], "/") = 2]

\* df.loc[:, filt]: the columns whose filter cell is True, in their order
loc_columns(d, filt) ==
    LET keep == Where(filt)
    IN  [index |-> d.index,
         columns |-> [k \in 1..Len(keep) |-> d.columns[keep[k]]],
         dtypes |-> [k \in 1..Len(keep) |-> d.dtypes[keep[k]]],
         data |-> [k \in 1..Len(keep) |-> d.data[keep[k]]]]

select_columns(d) ==
    LET cols == d.columns
        f1 == filt1(cols)
        f2 == filt2(cols)
        filt == [c \in 1..Len(cols) |-> f1[c] \/ f2[c]]
    IN  loc_columns(d, filt)

(***************************************************************************)
(* update_areas                                                            *)
(***************************************************************************)

\* a faulty rename table: one key misspelt, so never matched
REPLACE_AREA_Misspelt ==
    ("Korea, South" :> "South Korea") @@ ("Taiwan*" :> "Taiwan")
    @@ ("Burma" :> "Myanmar") @@ ("Holy See" :> "Vatican City")
    @@ ("Diamond Princess" :> "Cruise Ship") @@ ("Grand Princess" :> "Cruise Ship")
    @@ ("MS Zandam" :> "Cruise Ship")

REPLACE_AREA ==
    ("Korea, South" :> "South Korea") @@ ("Taiwan*" :> "Taiwan")
    @@ ("Burma" :> "Myanmar") @@ ("Holy See" :> "Vatican City")
    @@ ("Diamond Princess" :> "Cruise Ship") @@ ("Grand Princess" :> "Cruise Ship")
    @@ ("MS Zaandam" :> "Cruise Ship")

\* df.replace(to_replace): a cell that equals a key becomes the key's value;
\* the keys are strings, so only object columns can hold a match
replace(d, to_replace) ==
    [d EXCEPT !.data = [c \in 1..Len(d.data) |->
        IF d.dtypes[c] = "object"
        THEN [r \in 1..Len(d.data[c]) |->
                IF d.data[c][r][1] \in DOMAIN to_replace
                THEN Str(to_replace[d.data[c][r][1]])
                ELSE d.data[c][r]]
        ELSE d.data[c]]]

\* df[filt]: the rows whose filter cell is True, in their order, each with
\* its index label
loc_rows(d, filt) ==
    LET keep == Where(filt)
    IN  [d EXCEPT !.index = [k \in 1..Len(keep) |-> d.index[keep[k]]],
                  !.data = [c \in 1..Len(d.data) |->
                              [k \in 1..Len(keep) |-> d.data[c][keep[k]]]]]

\* update_areas of a table with at least one column.  The filter is the
\* comparison of the first column with 'US', whatever table df is; a
\* numeric cell never equals a string.
update_areas(d) ==
    LET first_col == 1
        renamed == replace(d, REPLACE_AREA)
        filt == [r \in 1..Len(renamed.index) |->
                    IF renamed.dtypes[first_col] = "object"
                    THEN renamed.data[first_col][r] # Str("US")
                    ELSE TRUE]
    IN  loc_rows(renamed, filt)

(***************************************************************************)
(* group_area                                                              *)
(***************************************************************************)

\* the area names of the model in the order Python sorts strings
SortedAreas ==
    <<"Alabama", "Alaska", "Burma", "Cruise Ship", "Diamond Princess", "France",
      "Grand Princess", "Holy See", "Korea, South", "MS Zaandam", "Myanmar",
      "South Korea", "Taiwan", "Taiwan*", "US", "Vatican City">>

\* a faulty group sum (skipna=False): a missing cell makes the total
\* missing
RECURSIVE sumStrict(_, _, _, _)
sumStrict(keys, col, key, n) ==
    IF n = 0 THEN Num(0)
    ELSE LET rest == sumStrict(keys, col, key, n - 1)
         IN  IF keys[n] # key THEN rest
             ELSE IF isna(col[n]) \/ isna(rest) THEN NaN
             ELSE Num(rest[1] + col[n][1])

\* GroupBy.sum of one column for one key over rows 1..n: the total of the
\* valid cells of the key's rows (skipna, min_count=0)
RECURSIVE sum(_, _, _, _)
sum(keys, col, key, n) ==
    IF n = 0 THEN Num(0)
    ELSE LET rest == sum(keys, col, key, n - 1)
         IN  IF keys[n] # key \/ isna(col[n]) THEN rest
             ELSE Num(rest[1] + col[n][1])

\* df.groupby(first_col).sum() of a table whose first column is text and
\* whose other columns are numeric: the distinct keys, sorted, become the
\* index; the first column leaves the columns
group_area(d) ==
    LET first_col == 1
        keys == d.data[first_col]
        present == [a \in 1..Len(SortedAreas) |-> Str(SortedAreas[a]) \in Range(keys)]
        groups == Where(present)
        n == Len(d.columns)
    IN  [index |-> [g \in 1..Len(groups) |-> SortedAreas[groups[g]]],
         columns |-> [c \in 1..(n - 1) |-> d.columns[c + 1]],
         dtypes |-> [c \in 1..(n - 1) |-> d.dtypes[c + 1]],
         data |-> [c \in 1..(n - 1) |->
                     [g \in 1..Len(groups) |->
                        sum(keys, d.data[c + 1], Str(SortedAreas[groups[g]]), Len(keys))]]]

(***************************************************************************)
(* transpose_to_ts                                                         *)
(***************************************************************************)
Digit ==
    ("0" :> 0) @@ ("1" :> 1) @@ ("2" :> 2) @@ ("3" :> 3) @@ ("4" :> 4)
    @@ ("5" :> 5) @@ ("6" :> 6) @@ ("7" :> 7) @@ ("8" :> 8) @@ ("9" :> 9)

\* the number a run of decimal digits writes
RECURSIVE ParseInt(_)
ParseInt(chars) ==
    IF chars = <<>> THEN 0
    ELSE 10 * ParseInt(SubSeq(chars, 1, Len(chars) - 1)) + Digit[chars[Len(chars)]]

\* pd.to_datetime of a month/day/two-digit-year header: <<year, month, day>>
to_datetime(header) ==
    LET slashes == Where([i \in 1..Len(header) |-> header[i] = "/"])
        month == SubSeq(header, 1, slashes[1] - 1)
        day == SubSeq(header, slashes[1] + 1, slashes[2] - 1)
        year == SubSeq(header, slashes[2] + 1, Len(header))
    IN  <<2000 + ParseInt(year), ParseInt(month), ParseInt(day)>>

\* df.T; df.columns[0] (IndexError when the table had no row);
\* df.index = pd.to_datetime(df.index)
transpose_to_ts(d) ==
    IF Len(d.index) = 0 THEN Raises("IndexError")
    ELSE Returns(
        [index |-> [t \in 1..Len(d.columns) |-> to_datetime(d.columns[t])],
         columns |-> d.index,
         dtypes |-> [a \in 1..Len(d.index) |-> "float64"],
         data |-> [a \in 1..Len(d.index) |->
                     [t \in 1..Len(d.columns) |-> d.data[t][a]]]])

(***************************************************************************)
(* The states in which one half of the model stands still while the other  *)
(* is explored.                                                            *)
(***************************************************************************)
NoFrame == [index |-> <<>>, columns |-> <<>>, dtypes |-> <<>>, data |-> <<>>]

RunIdle ==
    /\ download_new = TRUE
    /\ notebook = FALSE
    /\ source = <<>>
    /\ pos = 0
    /\ pc = "idle"
    /\ df = NoFrame
    /\ data = <<>>
    /\ returned = Raises("idle")
    /\ trace = <<>>

runVars == <<download_new, notebook, source, pos, pc, df, data, returned, trace>>

(***************************************************************************)
(* fix_bad_data applied to enumerated time series, and again to its own    *)
(* result.                                                                 *)
(***************************************************************************)
Cells == {NaN} \cup {Num(v) : v \in 0..MaxVal}

\* the series of the repair scenario
ScenarioSeries == <<Num(5), Num(7), Num(3), Num(10)>>

Series(n) == [1..n -> Cells]

\* a second column of missing or zero cells beside the enumerated one
Companions(n) == [1..n -> {NaN, Num(0)}]

TimeSeries(cols) ==
    [index |-> [r \in 1..Len(cols[1]) |-> r],
     columns |-> [c \in 1..Len(cols) |-> IF c = 1 THEN "France" ELSE "Taiwan"],
     dtypes |-> [c \in 1..Len(cols) |-> "float64"],
     data |-> cols]

\* the table is the scenario series, one enumerated column, or one
\* enumerated column beside a column of missing or zero cells
InitFix ==
    /\ \/ arg = TimeSeries(<<ScenarioSeries>>)
       \/ \E n \in 1..MaxLen : \E c \in Series(n) : arg = TimeSeries(<<c>>)
       \/ \E n \in 1..MaxLen : \E c \in Series(n) : \E e \in Companions(n) :
            arg = TimeSeries(<<c, e>>)
    /\ res = <<>>
    /\ RunIdle

\* one call of fix_bad_data, on the input first and then on what it returned
FixBadData ==
    /\ Len(res) < MaxApply
    /\ res # <<>> => res[Len(res)].exc = NoException
    /\ res' = Append(res, fix_bad_data(IF res = <<>> THEN arg ELSE res[Len(res)].value))
    /\ UNCHANGED <<arg, runVars>>

NextFix == FixBadData

SpecFix == InitFix /\ [][NextFix]_vars

(***************************************************************************)
(* Properties of fix_bad_data, stated on the input and the result alone.   *)
(***************************************************************************)
Abs(x) == IF x < 0 THEN -x ELSE x

\* the ceiling of row i: the largest valid value of rows 1..i
Ceiling(col, i) ==
    LET seen == {col[j][1] : j \in {k \in 1..i : ~isna(col[k])}}
    IN  CHOOSE m \in seen : \A o \in seen : o <= m

Flagged(col, i) == ~isna(col[i]) /\ col[i][1] < Ceiling(col, i)
Kept(col, i) == ~isna(col[i]) /\ ~Flagged(col, i)
KeptBefore(col, i) == {j \in 1..(i - 1) : Kept(col, j)}
KeptAfter(col, i) == {j \in (i + 1)..Len(col) : Kept(col, j)}
Last(S) == CHOOSE m \in S : \A o \in S : o <= m
First(S) == CHOOSE m \in S : \A o \in S : m <= o

\* v is a nearest integer of a + (b - a) * k / n
NearestOnLine(v, a, b, k, n) == 2 * Abs(v * n - (a * n + (b - a) * k)) <= n

Applied == res # <<>>
Returned(k) == Len(res) >= k /\ res[k].exc = NoException
Out(k, c) == res[k].value.data[c]
In(c) == arg.data[c]
ColsOf(d) == 1..Len(d.data)

NonDecreasing(col) == \A i \in 2..Len(col) : col[i - 1][1] <= col[i][1]

\* C1: in every table fix_bad_data returns, every column is non-decreasing
\* from each row to the next.
C1_Monotone ==
    \A k \in 1..Len(res) :
        Returned(k) => \A c \in ColsOf(arg) : NonDecreasing(Out(k, c))

\* a series with a regressed cell has been repaired
C1_Witness ==
    /\ Returned(1)
    /\ \E c \in ColsOf(arg) : \E i \in 1..Len(In(c)) : Flagged(In(c), i)

\* a cell that equals its ceiling keeps its value
KeepsUnflagged(c) ==
    \A i \in 1..Len(In(c)) : Kept(In(c), i) => Out(1, c)[i] = In(c)[i]

\* a flagged cell with a kept value on both sides lies, rounded, on the
\* line between the nearest of them
OnTheLine(c, i) ==
    LET p == Last(KeptBefore(In(c), i))
        q == First(KeptAfter(In(c), i))
    IN  NearestOnLine(Out(1, c)[i][1], In(c)[p][1], In(c)[q][1], i - p, q - p)

ScenarioResult ==
    arg.data = <<ScenarioSeries>> =>
        /\ Out(1, 1)[1] = Num(5) /\ Out(1, 1)[2] = Num(7) /\ Out(1, 1)[4] = Num(10)
        /\ Out(1, 1)[3] \in {Num(8), Num(9)}

\* C2 as stated: every cell below its ceiling is replaced by the rounded
\* linear interpolation between the nearest unflagged value before it and
\* the nearest unflagged value after it, every cell at its ceiling keeps its
\* value, and [5, 7, 3, 10] becomes [5, 7, 8 or 9, 10].
C2_AsStated ==
    Returned(1) =>
        /\ \A c \in ColsOf(arg) :
            /\ KeepsUnflagged(c)
            /\ \A i \in 1..Len(In(c)) :
                 Flagged(In(c), i) =>
                    /\ KeptAfter(In(c), i) # {}
                    /\ OnTheLine(c, i)
        /\ ScenarioResult

\* C2 amended: a cell below its ceiling that has an unflagged value after
\* it is replaced by the rounded linear interpolation between the nearest
\* unflagged values before and after it; one that has none after it takes
\* the nearest unflagged value before it; every cell at its ceiling keeps
\* its value, and [5, 7, 3, 10] becomes [5, 7, 8 or 9, 10].
C2_Interpolated ==
    Returned(1) =>
        /\ \A c \in ColsOf(arg) :
            /\ KeepsUnflagged(c)
            /\ \A i \in 1..Len(In(c)) :
                 Flagged(In(c), i) =>
                    IF KeptAfter(In(c), i) # {}
                    THEN OnTheLine(c, i)
                    ELSE Out(1, c)[i] = In(c)[Last(KeptBefore(In(c), i))]
        /\ ScenarioResult

\* a repaired series with one flagged cell between two kept ones and one
\* flagged cell after the last kept one
C2_Witness ==
    /\ Returned(1)
    /\ \E c \in ColsOf(arg) :
        /\ \E i \in 1..Len(In(c)) : Flagged(In(c), i) /\ KeptAfter(In(c), i) # {}
        /\ \E i \in 1..Len(In(c)) : Flagged(In(c), i) /\ KeptAfter(In(c), i) = {}

\* C3: a second application of fix_bad_data returns the table the first
\* returned, cell for cell.
C3_Idempotent == \A k \in 2..Len(res) : res[k] = res[k - 1]

\* fix_bad_data has run twice on a series it had to repair
C3_Witness ==
    /\ Returned(2)
    /\ \E c \in ColsOf(arg) : \E i \in 1..Len(In(c)) : Flagged(In(c), i)

AllMissing(col) == \A i \in 1..Len(col) : isna(col[i])

\* C4: fix_bad_data on a table with an all-missing column returns, and
\* that column of the result is all missing or all zero.
C4_AllMissingReturns ==
    Applied =>
        \A c \in ColsOf(arg) :
            AllMissing(In(c)) =>
                /\ Returned(1)
                /\ \/ AllMissing(Out(1, c))
                   \/ \A i \in 1..Len(In(c)) : Out(1, c)[i] = Num(0)

(***************************************************************************)
(* select_columns applied to enumerated raw tables of one row.             *)
(***************************************************************************)
Headers ==
    {hProvinceState, hCountryRegion, hProvince_State, hCountry_Region,
     hLat, hLong, hJan22, hJan23, hFourParts}

TextHeaders == {hProvinceState, hCountryRegion, hProvince_State, hCountry_Region}

\* the column list of the column-selection scenario
ScenarioColumns == <<hProvinceState, hCountryRegion, hLat, hLong, hJan22>>

\* the sequences of 1..n distinct headers
HeaderLists(n) ==
    UNION {{cols \in [1..m -> Headers] : \A i, j \in 1..m : i # j => cols[i] # cols[j]}
           : m \in 1..n}

\* a raw table of one row under the given headers; each numeric cell holds
\* the position of its column
RawRow(cols) ==
    [index |-> <<0>>,
     columns |-> cols,
     dtypes |-> [c \in 1..Len(cols) |-> IF cols[c] \in TextHeaders THEN "object" ELSE "float64"],
     data |-> [c \in 1..Len(cols) |-> IF cols[c] \in TextHeaders THEN <<Str("France")>> ELSE <<Num(c)>>]]

InitSelect ==
    /\ \E cols \in HeaderLists(MaxCols) \cup {ScenarioColumns} : arg = RawRow(cols)
    /\ res = <<>>
    /\ RunIdle

SelectColumns ==
    /\ res = <<>>
    /\ res' = <<Returns(select_columns(arg))>>
    /\ UNCHANGED <<arg, runVars>>

NextSelect == SelectColumns

SpecSelect == InitSelect /\ [][NextSelect]_vars

\* the parts a header splits into on "/"
Parts(header) == Cardinality({i \in 1..Len(header) : header[i] = "/"}) + 1

IsLabel(header) == header = hCountryRegion \/ header = hProvince_State

\* the input columns the rule keeps
Selected == {c \in 1..Len(arg.columns) : IsLabel(arg.columns[c]) \/ Parts(arg.columns[c]) = 3}

\* the k-th of them in the input's order
NthSelected(k) == CHOOSE c \in Selected : Cardinality({x \in Selected : x < c}) = k - 1

LabelsIn(cols) == {c \in 1..Len(cols) : IsLabel(cols[c])}

\* the result holds the selected columns, header and cells, in input order
KeepsSelected ==
    LET out == res[1].value
    IN  /\ Len(out.columns) = Cardinality(Selected)
        /\ \A k \in 1..Len(out.columns) :
             /\ out.columns[k] = arg.columns[NthSelected(k)]
             /\ out.data[k] = arg.data[NthSelected(k)]
        /\ arg.columns = ScenarioColumns => out.columns = <<hCountryRegion, hJan22>>

\* C10 as stated: for every input table select_columns keeps the
\* identifying column plus every column whose header splits on "/" into 3
\* parts, in order, drops the rest, and retains exactly one identifying
\* column; the scenario table keeps [Country/Region, 1/22/20].
C10_AsStated ==
    Applied =>
        /\ KeepsSelected
        /\ Cardinality(LabelsIn(res[1].value.columns)) = 1

\* C10 amended: select_columns keeps exactly the columns named
\* "Country/Region" or "Province_State" plus every column whose header
\* splits on "/" into 3 parts, in order, and drops the rest; it retains
\* exactly one identifying column when the input holds exactly one of the
\* two, both when it holds both and none when it holds none; the scenario
\* table keeps [Country/Region, 1/22/20].
C10_Selection ==
    Applied =>
        /\ KeepsSelected
        /\ Cardinality(LabelsIn(res[1].value.columns)) = Cardinality(LabelsIn(arg.columns))

\* the scenario table has been through select_columns
C10_Witness == Applied /\ arg.columns = ScenarioColumns

(***************************************************************************)
(* update_areas applied to enumerated world and usa tables.                *)
(***************************************************************************)
AreaNames == DOMAIN REPLACE_AREA \cup {"US", "France", "Cruise Ship"}

\* a selected wide table: the identifying column, then one column per date
Wide(first, areas, counts) ==
    [index |-> [r \in 1..Len(areas) |-> r - 1],
     columns |-> <<first>> \o [c \in 1..Len(counts) |-> <<hJan22, hJan23>>[c]],
     dtypes |-> <<"object">> \o [c \in 1..Len(counts) |-> "float64"],
     data |-> <<[r \in 1..Len(areas) |-> Str(areas[r])]>> \o counts]

InitAreas ==
    /\ \E n \in 1..MaxRows : \E first \in labels : \E areas \in [1..n -> AreaNames] :
         \E counts \in [1..n -> {Num(0), Num(MaxVal)}] :
            arg = Wide(first, areas, <<counts>>)
    /\ res = <<>>
    /\ RunIdle

UpdateAreas ==
    /\ res = <<>>
    /\ res' = <<Returns(update_areas(arg))>>
    /\ UNCHANGED <<arg, runVars>>

NextAreas == UpdateAreas

SpecAreas == InitAreas /\ [][NextAreas]_vars

IsWorld(d) == d.columns[1] = hCountryRegion
IsUsa(d) == d.columns[1] = hProvince_State
AreaOf(d, r) == d.data[1][r][1]
RowsOf(d) == 1..Len(d.index)

\* C5: after update_areas a world table has no row named "US", and a usa
\* table keeps every row, a row named "US" included.
C5_UsExclusionWorldOnly ==
    Applied =>
        LET out == res[1].value
        IN  /\ IsWorld(arg) => \A r \in RowsOf(out) : AreaOf(out, r) # "US"
            /\ IsUsa(arg) => out.index = arg.index

\* the canonical name the rename table of the claim gives a raw label
Canonical(a) ==
    CASE a = "Korea, South" -> "South Korea"
      [] a = "Taiwan*" -> "Taiwan"
      [] a = "Burma" -> "Myanmar"
      [] a = "Holy See" -> "Vatican City"
      [] a \in {"Diamond Princess", "Grand Princess", "MS Zaandam"} -> "Cruise Ship"
      [] OTHER -> a

RawLabels ==
    {"Korea, South", "Taiwan*", "Burma", "Holy See", "Diamond Princess",
     "Grand Princess", "MS Zaandam"}

\* the input row that carries index label l
RowLabelled(l) == CHOOSE r \in RowsOf(arg) : arg.index[r] = l

\* C9: after update_areas no row carries a key of the rename table; every
\* input row not named "US" is in the result, in order, under its canonical
\* name when it carried a key and under its own name otherwise.
C9_Renamed ==
    Applied =>
        LET out == res[1].value
            stay == [r \in RowsOf(arg) |-> AreaOf(arg, r) # "US"]
        IN  /\ \A r \in RowsOf(out) : AreaOf(out, r) \notin RawLabels
            /\ out.index = [k \in 1..Len(Where(stay)) |-> arg.index[Where(stay)[k]]]
            /\ \A r \in RowsOf(out) :
                 /\ AreaOf(out, r) = Canonical(AreaOf(arg, RowLabelled(out.index[r])))
                 /\ out.data[2][r] = arg.data[2][RowLabelled(out.index[r])]

\* update_areas has run on a table that held a key of the rename table and
\* a label outside it
C9_Witness ==
    /\ Applied
    /\ \E r \in RowsOf(arg) : AreaOf(arg, r) \in RawLabels
    /\ \E r \in RowsOf(arg) : AreaOf(arg, r) = "France"

(***************************************************************************)
(* group_area applied to enumerated tables of two date columns.            *)
(***************************************************************************)
GroupAreas == {"France", "Cruise Ship"}

InitGroup ==
    /\ \E n \in 1..MaxRows : \E areas \in [1..n -> GroupAreas] :
         \E jan22 \in [1..n -> Cells] : \E jan23 \in [1..n -> Cells] :
            arg = Wide(hCountryRegion, areas, <<jan22, jan23>>)
    /\ res = <<>>
    /\ RunIdle

GroupArea ==
    /\ res = <<>>
    /\ res' = <<Returns(group_area(arg))>>
    /\ UNCHANGED <<arg, runVars>>

NextGroup == GroupArea

SpecGroup == InitGroup /\ [][NextGroup]_vars

\* the total of a date column over a set of rows, a missing cell counting 0
RECURSIVE Total(_, _)
Total(col, rows) ==
    IF rows = {} THEN 0
    ELSE LET r == CHOOSE x \in rows : TRUE
         IN  (IF isna(col[r]) THEN 0 ELSE col[r][1]) + Total(col, rows \ {r})

RowsNamed(a) == {r \in RowsOf(arg) : AreaOf(arg, r) = a}

\* C8: group_area returns one row per distinct area of the first column,
\* under the input's date columns, and each value is the sum of the date's
\* values over the rows of the area, a missing cell counting as 0.
C8_Aggregated ==
    Applied =>
        LET out == res[1].value
        IN  /\ Range(out.index) = {AreaOf(arg, r) : r \in RowsOf(arg)}
            /\ \A r, q \in RowsOf(out) : r # q => out.index[r] # out.index[q]
            /\ out.columns = Tail(arg.columns)
            /\ \A c \in 1..Len(out.columns) : \A r \in RowsOf(out) :
                 out.data[c][r] = Num(Total(arg.data[c + 1], RowsNamed(out.index[r])))

\* group_area has merged two rows of one area, one of them with a missing
\* cell
C8_Witness ==
    /\ Applied
    /\ \E r, q \in RowsOf(arg) :
         /\ r # q
         /\ AreaOf(arg, r) = AreaOf(arg, q)
         /\ isna(arg.data[2][r])
         /\ ~isna(arg.data[2][q])

(***************************************************************************)
(* run(): the two nested loops over GROUPS and KINDS, one action per call. *)
(***************************************************************************)
GROUPS == <<"world", "usa">>
KINDS == <<"deaths", "cases">>

NumPairs == Len(GROUPS) * Len(KINDS)
GroupAt(p) == GROUPS[((p - 1) \div Len(KINDS)) + 1]
KindAt(p) == KINDS[((p - 1) % Len(KINDS)) + 1]

\* f'{group}_{kind}'
Key(p) == GroupAt(p) \o "_" \o KindAt(p)

\* download_data: the file DOWNLOAD_URL.format(kind, group) names, in the
\* provider's words
RemoteFile(group, kind) ==
    LET g == IF group = "usa" THEN "US" ELSE "global"
        k == IF kind = "cases" THEN "confirmed" ELSE "deaths"
    IN  "time_series_covid19_" \o k \o "_" \o g \o ".csv"

\* read_local_data: f'{directory}/{group}_{kind}.csv'
LocalFile(group, kind, directory) == directory \o "/" \o group \o "_" \o kind \o ".csv"

directory == "data/raw"

\* the file the ingestion of pair p asks for
FileAt(p) ==
    IF download_new THEN RemoteFile(GroupAt(p), KindAt(p))
    ELSE LocalFile(GroupAt(p), KindAt(p), directory)

RemoteFiles == {RemoteFile(GroupAt(p), KindAt(p)) : p \in 1..NumPairs}
LocalFiles == {LocalFile(GroupAt(p), KindAt(p), directory) : p \in 1..NumPairs}

\* raw tables a source may deliver
RawTable(cols, kinds, rows) ==
    [index |-> [r \in 1..Len(rows) |-> r - 1],
     columns |-> cols,
     dtypes |-> kinds,
     data |-> [c \in 1..Len(cols) |-> [r \in 1..Len(rows) |-> rows[r][c]]]]

WorldColumns == <<hProvinceState, hCountryRegion, hLat, hLong, hJan22, hJan23, hJan24>>
WorldDtypes == <<"object", "object", "float64", "float64", "float64", "float64", "float64">>

\* the two provinces of the end-to-end scenario
WorldScenario ==
    RawTable(WorldColumns, WorldDtypes,
        <<<<Str("Seoul"), Str("Korea, South"), Num(37), Num(127), Num(1), Num(2), Num(5)>>,
          <<Str("Busan"), Str("Korea, South"), Num(35), Num(129), Num(0), Num(1), Num(1)>>>>)

\* a world table with a "US" row and a count that regresses
WorldRegress ==
    RawTable(WorldColumns, WorldDtypes,
        <<<<Str(""), Str("US"), Num(40), Num(100), Num(3), Num(4), Num(5)>>,
          <<Str(""), Str("Burma"), Num(21), Num(95), Num(5), Num(3), Num(7)>>,
          <<Str(""), Str("France"), Num(46), Num(2), Num(1), NaN, Num(2)>>>>)

\* a usa table, one row per county
UsaCounties ==
    RawTable(<<hProvince_State, hCountry_Region, hLat, hJan22, hJan23, hJan24>>,
             <<"object", "object", "float64", "float64", "float64", "float64">>,
        <<<<Str("Alabama"), Str("US"), Num(32), Num(0), Num(1), Num(1)>>,
          <<Str("Alaska"), Str("US"), Num(61), Num(2), Num(1), Num(3)>>,
          <<Str("Alabama"), Str("US"), Num(33), Num(1), Num(0), Num(2)>>>>)

\* what pd.read_csv raises on a file that is not there
Unavailable(file) ==
    IF file \in RemoteFiles THEN Raises("HTTPError") ELSE Raises("FileNotFoundError")

Deliveries(file) ==
    IF file \in {RemoteFile("world", k) : k \in Range(KINDS)}
                \cup {LocalFile("world", k, directory) : k \in Range(KINDS)}
    THEN {Unavailable(file), Returns(WorldScenario), Returns(WorldRegress)}
    ELSE {Unavailable(file), Returns(UsaCounties)}

\* the files of the place the run reads: the provider's, or the local cache
Places(files) ==
    {s \in [files -> UNION {Deliveries(f) : f \in files}] :
        \A f \in files : s[f] \in Deliveries(f)}

InitRun ==
    /\ arg = NoFrame
    /\ res = <<>>
    /\ download_new \in BOOLEAN
    /\ notebook \in IF download_new THEN {FALSE} ELSE BOOLEAN
    /\ source \in Places(IF download_new THEN RemoteFiles ELSE LocalFiles)
    /\ pos = 1
    /\ pc = "ingest"
    /\ df = NoFrame
    /\ data = <<>>
    /\ returned = Raises("running")
    /\ trace = <<>>

envVars == <<arg, res, download_new, notebook, source>>

Called(name) == Append(trace, <<Key(pos), name>>)

\* an exception leaves run(): nothing is returned, the loops are over
Propagate(e) ==
    /\ pc' = "done"
    /\ returned' = Raises(e)
    /\ UNCHANGED <<pos, df, data>>

\* the next statement of the loop body after a call that returned v
Continue(next, v) ==
    /\ pc' = next
    /\ df' = v
    /\ UNCHANGED <<pos, data, returned>>

\* df=self.download_data(group,kind), the file being served
DownloadData ==
    /\ pc = "ingest"
    /\ ~notebook
    /\ download_new
    /\ source[RemoteFile(GroupAt(pos), KindAt(pos))].exc = NoException
    /\ trace' = Called("download_data")
    /\ Continue("select_columns", source[RemoteFile(GroupAt(pos), KindAt(pos))].value)
    /\ UNCHANGED envVars

\* a faulty handling of a failed download: the pair is skipped and the loop
\* goes on
DownloadFailsSkipped ==
    /\ pc = "ingest"
    /\ ~notebook
    /\ download_new
    /\ source[RemoteFile(GroupAt(pos), KindAt(pos))].exc # NoException
    /\ trace' = Called("download_data")
    /\ pos' = pos + 1
    /\ pc' = IF pos < NumPairs THEN "ingest" ELSE "return"
    /\ UNCHANGED <<envVars, df, data, returned>>

\* df=self.download_data(group,kind), pd.read_csv(url) raising
DownloadFails ==
    /\ pc = "ingest"
    /\ ~notebook
    /\ download_new
    /\ source[RemoteFile(GroupAt(pos), KindAt(pos))].exc # NoException
    /\ trace' = Called("download_data")
    /\ Propagate(source[RemoteFile(GroupAt(pos), KindAt(pos))].exc)
    /\ UNCHANGED envVars

\* df=self.read_local_data(group,kind): the method takes (group, kind,
\* directory), so the call raises TypeError before any file is read
ReadLocalData ==
    /\ pc = "ingest"
    /\ ~notebook
    /\ ~download_new
    /\ trace' = Called("read_local_data")
    /\ Propagate("TypeError")
    /\ UNCHANGED envVars

\* the notebook's run(): data[f'{group}_{kind}']= read_local_data(group,kind,
\* directory), the file being there, and the loops step
NotebookReadLocalData ==
    /\ pc = "ingest"
    /\ notebook
    /\ source[LocalFile(GroupAt(pos), KindAt(pos), directory)].exc = NoException
    /\ trace' = Called("read_local_data")
    /\ data' = (Key(pos) :> source[LocalFile(GroupAt(pos), KindAt(pos), directory)].value) @@ data
    /\ pos' = pos + 1
    /\ pc' = IF pos < NumPairs THEN "ingest" ELSE "return"
    /\ UNCHANGED <<envVars, df, returned>>

\* the notebook's run(), pd.read_csv raising on a missing file
NotebookReadFails ==
    /\ pc = "ingest"
    /\ notebook
    /\ source[LocalFile(GroupAt(pos), KindAt(pos), directory)].exc # NoException
    /\ trace' = Called("read_local_data")
    /\ Propagate(source[LocalFile(GroupAt(pos), KindAt(pos), directory)].exc)
    /\ UNCHANGED envVars

RunSelectColumns ==
    /\ pc = "select_columns"
    /\ trace' = Called("select_columns")
    /\ Continue("update_areas", select_columns(df))
    /\ UNCHANGED envVars

RunUpdateAreas ==
    /\ pc = "update_areas"
    /\ trace' = Called("update_areas")
    /\ Continue("group_area", update_areas(df))
    /\ UNCHANGED envVars

RunGroupArea ==
    /\ pc = "group_area"
    /\ trace' = Called("group_area")
    /\ Continue("transpose_to_ts", group_area(df))
    /\ UNCHANGED envVars

RunTransposeToTs ==
    /\ pc = "transpose_to_ts"
    /\ trace' = Called("transpose_to_ts")
    /\ LET r == transpose_to_ts(df)
       IN  IF r.exc = NoException THEN Continue("fix_bad_data", r.value)
           ELSE Propagate(r.exc)
    /\ UNCHANGED envVars

RunFixBadData ==
    /\ pc = "fix_bad_data"
    /\ trace' = Called("fix_bad_data")
    /\ LET r == fix_bad_data(df)
       IN  IF r.exc = NoException THEN Continue("store", r.value)
           ELSE Propagate(r.exc)
    /\ UNCHANGED envVars

\* data[f'{group}_{kind}']=df, and the loops step
Store ==
    /\ pc = "store"
    /\ data' = (Key(pos) :> df) @@ data
    /\ pos' = pos + 1
    /\ pc' = IF pos < NumPairs THEN "ingest" ELSE "return"
    /\ UNCHANGED <<envVars, df, returned, trace>>

\* return data
Return ==
    /\ pc = "return"
    /\ pc' = "done"
    /\ returned' = Returns(data)
    /\ UNCHANGED <<envVars, pos, df, data, trace>>

NextRun ==
    \/ DownloadData
    \/ DownloadFails
    \/ ReadLocalData
    \/ NotebookReadLocalData
    \/ NotebookReadFails
    \/ RunSelectColumns
    \/ RunUpdateAreas
    \/ RunGroupArea
    \/ RunTransposeToTs
    \/ RunFixBadData
    \/ Store
    \/ Return

SpecRun == InitRun /\ [][NextRun]_vars

(***************************************************************************)
(* Properties of run().                                                    *)
(***************************************************************************)
Keys == {"world_deaths", "world_cases", "usa_deaths", "usa_cases"}

Served(p) == source[FileAt(p)].exc = NoException

Stages == <<"select_columns", "update_areas", "group_area", "transpose_to_ts", "fix_bad_data">>

\* the calls of a run that goes through all pairs: for each pair, in the
\* order of the loops, the ingestion and then the five stages
FullTrace(ingestion) ==
    [i \in 1..(NumPairs * (Len(Stages) + 1)) |->
        LET p == ((i - 1) \div (Len(Stages) + 1)) + 1
            k == (i - 1) % (Len(Stages) + 1)
        IN  <<Key(p), IF k = 0 THEN ingestion ELSE Stages[k]>>]

\* C6: with every source in place, run() goes through the 4 pairs, calls
\* for each the ingestion and then select_columns, update_areas,
\* group_area, transpose_to_ts, fix_bad_data, and returns a mapping whose
\* keys are world_deaths, world_cases, usa_deaths, usa_cases, with
\* download_new True and with download_new False.
C6_RunReturnsFourKeys ==
    (pc = "done" /\ \A p \in 1..NumPairs : Served(p)) =>
        /\ returned.exc = NoException
        /\ DOMAIN returned.value = Keys
        /\ trace = FullTrace(IF download_new THEN "download_data" ELSE "read_local_data")

\* C7 as stated: when the ingestion of one pair fails, the results of the
\* other three pairs are still produced.
C7_AsStated ==
    (pc = "done" /\ (download_new \/ notebook)
        /\ Cardinality({p \in 1..NumPairs : ~Served(p)}) = 1) =>
        /\ returned.exc = NoException
        /\ \A p \in 1..NumPairs : Served(p) => Key(p) \in DOMAIN returned.value

\* the first pair whose ingestion fails: the first pair whose file is not
\* served, and the very first pair when Preparedata.run reads the local
\* cache
FailingPairs == {p \in 1..NumPairs : (~download_new /\ ~notebook) \/ ~Served(p)}
FirstFailing == CHOOSE p \in FailingPairs : \A q \in FailingPairs : p <= q
PairOf(key) == CHOOSE p \in 1..NumPairs : Key(p) = key

\* C7 amended: when the ingestion of a pair fails, the exception leaves
\* run(): the caller receives no mapping at all, the run stops at the
\* failing pair with the results of the pairs before it held only in the
\* local data, and no call is made for any pair after it.
C7_WholeRunFails ==
    (pc = "done" /\ FailingPairs # {}) =>
        /\ returned.exc \in {"HTTPError", "FileNotFoundError", "TypeError"}
        /\ returned.value = <<>>
        /\ pos = FirstFailing
        /\ DOMAIN data = {Key(p) : p \in 1..(pos - 1)}
        /\ \A i \in 1..Len(trace) : PairOf(trace[i][1]) <= pos
        /\ trace[Len(trace)][1] = Key(pos)

\* a run whose second pair failed to download, the others being served
C7_Witness ==
    /\ pc = "done"
    /\ download_new
    /\ Key(1) \in DOMAIN data
    /\ {p \in 1..NumPairs : ~Served(p)} = {2}
    /\ returned.exc # NoException

====
